---- MODULE Spec2Model ----
(***************************************************************************)
(* Incremental retrieval-and-cache reconciliation of daily flat files:     *)
(* BasePrices.retrieve_prices (src/src/prices/base.py) over the local      *)
(* cache helpers, the retry wrapper and the S3 fetch of src/src/utils.py.  *)
(*                                                                         *)
(* Days are day numbers.  A file is a record [exists, bytes]; the file     *)
(* system maps a path to a file.  The remote bucket is the vendor's: what  *)
(* it holds under a key, an object [exists, body], is an input of each     *)
(* fetch.                                                                  *)
(***************************************************************************)
EXTENDS Integers, Sequences, FiniteSets, TLC

VARIABLES
    fs,             \* local file system: path -> [exists, bytes]
    seen,           \* history: object key -> what the bucket held at the last answered fetch
    env,            \* process environment: the two credential variables
    run,            \* per process: the BasePrices object and the locals of retrieve_prices
    prev,           \* history: how the run that ended last went, while the bucket stays as it saw it
    retry,          \* one call of a function wrapped by with_retry, taken by itself
    norm            \* one call of parse_and_save, taken by itself, and what it stored

vars == <<fs, seen, env, run, prev, retry, norm>>

----------------------------------------------------------------------------
(* Bounds of the model *)

\* Days are 0..MaxDay; a requested range [date_start, date_end) has date_end <= MaxDay + 1.
MaxDay == 2

\* Attempts allowed by stop_after_attempt.  src/src/constants.py:13 sets 100; the retry
\* loop is the same for every value >= 1 and is explored here with a small one.
MAX_RETRIES == 3

\* The largest delay bound, in seconds, that a wrapped call taken by itself is
\* given besides the delays of constants.py.
DelayBound == 5

\* The most rows a day's raw table holds when parse_and_save is taken by itself.
MaxRows == 2

----------------------------------------------------------------------------
(* Values *)

Days == 0..MaxDay
EndDays == 0..(MaxDay + 1)

\* The processes that may run the retrieval; Spec schedules only the first.
Procs == {"p1", "p2"}
SingleProc == {"p1"}

\* Contents of a remote flat file (gzip bytes).  <<1>> is a proper prefix of <<1, 2>>.
Bodies == {<<1>>, <<1, 2>>}

\* Proper prefixes of b: what a write that is cut short can leave behind.
Prefixes(b) == {SubSeq(b, 1, n) : n \in 0..(Len(b) - 1)}

NoFile == [exists |-> FALSE, bytes |-> <<>>]
File(b) == [exists |-> TRUE, bytes |-> b]

NoObject == [exists |-> FALSE, body |-> <<>>]
Object(b) == [exists |-> TRUE, body |-> b]
Objects == {NoObject} \cup {Object(b) : b \in Bodies}
\* History: no fetch of the key has been answered yet.
Unseen == [exists |-> FALSE, body |-> <<0>>]

\* The asset types of the subclasses of BasePrices.
AssetTypes == {"stocks", "crypto", "forex", "options"}

\* StockPrices.__init__: the parameters it hands to BasePrices.__init__.
AssetType == "stocks"
S3Prefix == "us_stocks_sip"
\* available_from, as a day number: day 0 lies before the availability floor.
AvailableFrom == 1

\* The exception kinds with_retry retries on.
TransientErrors == {"ReadTimeoutError", "MaxRetryError", "ConnectionError"}
\* What one s3.get_object request can end in, besides an answer of the bucket:
\* a transient exception, a ClientError with status 403 or another status, or
\* some other exception.
Faults == TransientErrors \cup {"ClientError403", "ClientError500", "OtherError"}

----------------------------------------------------------------------------
(* Local cache store: src/src/utils.py *)

\* hashlib.md5(...).hexdigest() of the bytes: a digest that identifies them.
Md5(b) == <<"md5", b>>
NoEtag == <<"none", <<>>>>

\* compute_file_md5: None for a missing file, else the digest of its bytes.
compute_file_md5(f) == IF ~f.exists THEN NoEtag ELSE Md5(f.bytes)

\* A files directory that is the same for every asset type.
files_dir_Shared(asset) == <<"files", "all">>

\* BasePrices.__init__: files_dir.
files_dir(asset) == <<"files", asset>>

\* A marker path without the suffix: the raw path itself.
empty_marker_path_NoSuffix(path) == path

\* get_flat_file_path and the marker path beside it.
get_flat_file_path(dir, d) == <<dir, d, "csv.gz">>
empty_marker_path(path) == <<path[1], path[2], path[3] \o ".empty">>

\* The object key of a day.
s3_path(prefix, d) == <<prefix, "minute_aggs_v1", d>>

Paths == {get_flat_file_path(files_dir(AssetType), d) : d \in Days}
           \cup {empty_marker_path(get_flat_file_path(files_dir(AssetType), d)) : d \in Days}
Keys == {s3_path(S3Prefix, d) : d \in Days}

\* os.path.exists
path_exists(f, path) == f[path].exists

\* A create_empty_marker that writes a byte to the file it opens.
create_empty_marker_WritesByte(f, path) ==
    LET m == empty_marker_path(path)
    IN  [f EXCEPT ![m] = File(IF f[m].exists THEN Append(f[m].bytes, 1) ELSE <<1>>)]

\* A create_empty_marker that makes the directory and leaves the file out.
create_empty_marker_NoFile(f, path) == f

\* create_empty_marker: open(marker_path, "a").close() creates the file when it is
\* missing and leaves an existing one as it is.
create_empty_marker(f, path) ==
    LET m == empty_marker_path(path)
    IN  IF f[m].exists THEN f ELSE [f EXCEPT ![m] = File(<<>>)]

\* save_flat_file_bytes, first half: open(file_path, "wb") creates or truncates.
open_wb(f, path) == [f EXCEPT ![path] = File(<<>>)]

\* save_flat_file_bytes, second half: f.write(file_bytes) and close.
write_bytes(f, path, b) == [f EXCEPT ![path] = File(b)]

----------------------------------------------------------------------------
(* Remote source: get_file_from_s3, src/src/utils.py *)

\* The ETag the bucket keeps for an object: the MD5 of its body.
RemoteETag(obj) == Md5(obj.body)

\* What the fetch hands back: (file_bytes, etag, file_exists).
Unchanged == [has_bytes |-> FALSE, bytes |-> <<>>, etag |-> NoEtag, exists |-> TRUE]
NotFound == [has_bytes |-> FALSE, bytes |-> <<>>, etag |-> NoEtag, exists |-> FALSE]
Found(b, e) == [has_bytes |-> TRUE, bytes |-> b, etag |-> e, exists |-> TRUE]
NoResult == [has_bytes |-> FALSE, bytes |-> <<>>, etag |-> NoEtag, exists |-> FALSE]

Returns(v) == [raises |-> "", value |-> v, requested |-> TRUE]
Raises(e, req) == [raises |-> e, value |-> NoResult, requested |-> req]

\* A credential test that looks at the key id only.
CredentialsOk_KeyIdOnly(key_id, secret) == key_id

\* get_s3_client: both credentials must be set.
CredentialsOk(key_id, secret) == key_id /\ secret

\* A get_file_from_s3 without the NoSuchKey / 404 case: a missing object ends in
\* the RuntimeError of the other client errors.
get_file_from_s3_NoSuchKeyRaises(obj, key_id, secret, if_none_match, fault) ==
    IF ~CredentialsOk(key_id, secret) THEN Raises("ValueError", FALSE)
    ELSE IF fault \in TransientErrors THEN Raises(fault, TRUE)
    ELSE IF fault = "OtherError" THEN Raises("OtherError", TRUE)
    ELSE IF fault \in {"ClientError403", "ClientError500"} THEN Raises("RuntimeError", TRUE)
    ELSE IF ~obj.exists THEN Raises("RuntimeError", TRUE)
    ELSE IF if_none_match # NoEtag /\ if_none_match = RemoteETag(obj) THEN Returns(Unchanged)
    ELSE Returns(Found(obj.body, RemoteETag(obj)))

\* A get_file_from_s3 that leaves IfNoneMatch out of the request.
get_file_from_s3_Unconditional(obj, key_id, secret, if_none_match, fault) ==
    IF ~CredentialsOk(key_id, secret) THEN Raises("ValueError", FALSE)
    ELSE IF fault \in TransientErrors THEN Raises(fault, TRUE)
    ELSE IF fault = "OtherError" THEN Raises("OtherError", TRUE)
    ELSE IF fault \in {"ClientError403", "ClientError500"} THEN Raises("RuntimeError", TRUE)
    ELSE IF ~obj.exists THEN Returns(NotFound)
    ELSE Returns(Found(obj.body, RemoteETag(obj)))

\* A get_file_from_s3 whose conditional request is answered 304 whatever the
\* fingerprint it carries.
get_file_from_s3_AnyFingerprint(obj, key_id, secret, if_none_match, fault) ==
    IF ~CredentialsOk(key_id, secret) THEN Raises("ValueError", FALSE)
    ELSE IF fault \in TransientErrors THEN Raises(fault, TRUE)
    ELSE IF fault = "OtherError" THEN Raises("OtherError", TRUE)
    ELSE IF fault \in {"ClientError403", "ClientError500"} THEN Raises("RuntimeError", TRUE)
    ELSE IF ~obj.exists THEN Returns(NotFound)
    ELSE IF if_none_match # NoEtag THEN Returns(Unchanged)
    ELSE Returns(Found(obj.body, RemoteETag(obj)))

\* get_file_from_s3: one call.  obj is the object under the key at the time of
\* the request, fault what the request ends in ("" for an answer of the bucket).
get_file_from_s3(obj, key_id, secret, if_none_match, fault) ==
    IF ~CredentialsOk(key_id, secret) THEN Raises("ValueError", FALSE)
    ELSE IF fault \in TransientErrors THEN Raises(fault, TRUE)
    ELSE IF fault = "OtherError" THEN Raises("OtherError", TRUE)
    ELSE IF fault \in {"ClientError403", "ClientError500"} THEN Raises("RuntimeError", TRUE)
    ELSE IF ~obj.exists THEN Returns(NotFound)
    ELSE IF if_none_match # NoEtag /\ if_none_match = RemoteETag(obj) THEN Returns(Unchanged)
    ELSE Returns(Found(obj.body, RemoteETag(obj)))

\* The HTTP status of the response to one request of get_file_from_s3, 0 when
\* the request ends without a response (lines 165 and 176-178): botocore raises
\* ClientError for 304, 404, 403 and 5xx.
HttpStatus(obj, if_none_match, fault) ==
    IF fault \in TransientErrors \cup {"OtherError"} THEN 0
    ELSE IF fault = "ClientError403" THEN 403
    ELSE IF fault = "ClientError500" THEN 500
    ELSE IF ~obj.exists THEN 404
    ELSE IF if_none_match # NoEtag /\ if_none_match = RemoteETag(obj) THEN 304
    ELSE 200

\* A retry condition that takes in RuntimeError as well.
IsRetried_RuntimeError(e) == e \in TransientErrors \cup {"RuntimeError"}

\* with_retry: retry_if_exception_type(...).
IsRetried(e) == e \in TransientErrors

\* A stop condition that allows one attempt more.
StopAfterAttempt_OneMore(attempt) == attempt > MAX_RETRIES

\* constants.py: the delays between retries, in seconds.
MIN_DELAY == 1
MAX_DELAY == 600

\* An exponential wait that is not capped.
wait_exponential_NoCap(min_delay, max_delay, attempt) ==
    LET result == 2 ^ (attempt - 1)
        floor == IF min_delay > 0 THEN min_delay ELSE 0
    IN  IF result > floor THEN result ELSE floor

\* with_retry: wait_exponential(min=min_delay, max=max_delay), the seconds slept
\* after the failed attempt of this number (tenacity: multiplier 1, base 2,
\* max(max(0, min), min(2 ** (attempt_number - 1), max))).
wait_exponential(min_delay, max_delay, attempt) ==
    LET result == 2 ^ (attempt - 1)
        capped == IF result < max_delay THEN result ELSE max_delay
        floor == IF min_delay > 0 THEN min_delay ELSE 0
    IN  IF capped > floor THEN capped ELSE floor

\* No wrapped call is looked at by itself.
NoCall ==
    [pc |-> "none", min_delay |-> 0, max_delay |-> 0, attempt |-> 0, delays |-> <<>>,
     err |-> ""]

\* A stop condition that gives up one attempt early.
StopAfterAttempt_OneLess(attempt) == attempt >= MAX_RETRIES - 1

\* with_retry: stop_after_attempt(max_retries), asked after a failed attempt.
StopAfterAttempt(attempt) == attempt >= MAX_RETRIES

----------------------------------------------------------------------------
(* The per-ticker layer: parse_and_save of src/src/base_prices.py and the    *)
(* filter_ticker_data of the asset classes.  A ticker is a sequence of       *)
(* characters, a raw table a sequence of rows with the columns of the flat   *)
(* file, a row a function from column names to values.                       *)

\* BasePrices.__init__ of base_prices.py: prices_dir.
prices_dir(asset) == <<"prices", asset>>

\* str.upper, character by character.
UpperChar(c) == IF c = "s" THEN "S" ELSE IF c = "g" THEN "G" ELSE c
upper(t) == [i \in DOMAIN t |-> UpperChar(t[i])]

\* str.startswith
startswith(s, p) == Len(p) <= Len(s) /\ SubSeq(s, 1, Len(p)) = p

\* The ticker lists a caller asks for.
TickerLists == {<< <<"s">> >>, << <<"S">>, <<"S", "G">> >>}

\* The tickers found in the ticker column of the flat files: stocks, a crypto
\* pair, a forex pair, and option contracts on the underlyings S, SG and M.
RawTickers ==
    {<<"S">>, <<"S", "G">>, <<"X", ":", "S">>, <<"C", ":", "S">>,
     <<"O", ":", "S", "1">>, <<"O", ":", "S", "G", "1">>, <<"O", ":", "M", "1">>}

\* window_start of a row: nanoseconds since the epoch.
WindowStarts == 1..2

\* The rows of a flat file, and the raw day tables of up to n rows.
RawRows ==
    {[ticker |-> t, volume |-> 5, open |-> 1, close |-> 2, high |-> 4, low |-> 0,
      window_start |-> w, transactions |-> 6] : t \in RawTickers, w \in WindowStarts}
RawTables(n) == UNION {[1..k -> RawRows] : k \in 0..n}

\* pd.to_datetime(..., unit="ns", utc=True).dt.tz_convert("America/New_York"):
\* the same instant, carried with the zone.
to_timestamp(ns) == [ns |-> ns, tz |-> "America/New_York"]

\* parse_and_save, lines 113-118: the timestamp column is added, window_start is
\* dropped, and the timestamp is made the index.
Reindexed(data) ==
    [i \in DOMAIN data |->
        [c \in (DOMAIN data[i] \ {"window_start"}) \cup {"timestamp"} |->
            IF c = "timestamp" THEN to_timestamp(data[i].window_start) ELSE data[i][c]]]

\* The table is in ascending order of its index.
IsSorted(table) ==
    \A i \in DOMAIN table, j \in DOMAIN table :
        i < j => table[i].timestamp.ns <= table[j].timestamp.ns

\* sort_index(): the rows in ascending order of the index; rows of the same
\* timestamp come in whatever order the sort (quicksort) leaves them.
sort_index(table) ==
    LET n == Len(table)
        perms == {f \in [1..n -> 1..n] : \A i \in 1..n, j \in 1..n : f[i] = f[j] => i = j}
    IN  {sorted \in {[i \in 1..n |-> table[f[i]]] : f \in perms} : IsSorted(sorted)}

\* filter_ticker_data of StockPrices, CryptoPrices, ForexPrices and OptionPrices:
\* data[mask], the rows for which the mask holds, in their order.
stocks_filter_ticker_data(data, ticker) ==
    LET Mask(row) == row["ticker"] = ticker IN SelectSeq(data, Mask)
crypto_filter_ticker_data(data, ticker) ==
    LET Mask(row) == row["ticker"] = <<"X", ":">> \o ticker IN SelectSeq(data, Mask)
forex_filter_ticker_data(data, ticker) ==
    LET Mask(row) == row["ticker"] = <<"C", ":">> \o ticker IN SelectSeq(data, Mask)
options_filter_ticker_data(data, ticker) ==
    LET Mask(row) == startswith(row["ticker"], <<"O", ":">> \o ticker) IN SelectSeq(data, Mask)

\* A filter that takes the option contracts like the tickers of the other classes.
filter_ticker_data_OptionsExact(asset, data, ticker) ==
    IF asset = "stocks" THEN stocks_filter_ticker_data(data, ticker)
    ELSE IF asset = "crypto" THEN crypto_filter_ticker_data(data, ticker)
    ELSE IF asset = "forex" THEN forex_filter_ticker_data(data, ticker)
    ELSE LET Mask(row) == row["ticker"] = <<"O", ":">> \o ticker IN SelectSeq(data, Mask)

\* self.filter_ticker_data(data, ticker): the method of the object's class.
filter_ticker_data(asset, data, ticker) ==
    IF asset = "stocks" THEN stocks_filter_ticker_data(data, ticker)
    ELSE IF asset = "crypto" THEN crypto_filter_ticker_data(data, ticker)
    ELSE IF asset = "forex" THEN forex_filter_ticker_data(data, ticker)
    ELSE options_filter_ticker_data(data, ticker)

\* parse_and_save, line 122: the columns kept beside the index.
KeptColumns == {"ticker", "open", "close", "low", "high", "volume"}
SelectColumns(table) ==
    [i \in DOMAIN table |-> [c \in KeptColumns \cup {"timestamp"} |-> table[i][c]]]

\* The path of a ticker's table of a day, and of the marker that stands for it.
parquet_path(dir, ticker, d) == <<dir, ticker, d, "parquet">>
marker_file(dir, ticker, d) == <<dir, ticker, d, "parquet" \o ".empty">>

\* No call of parse_and_save is looked at.  saved holds the calls of
\* save_daily_prices, each a path with the table handed over for it; markers
\* holds the marker files there are.
NoParse ==
    [pc |-> "none", asset_type |-> "", tickers |-> <<>>, date |-> 0, data |-> <<>>,
     saved |-> {}, markers |-> {}]

\* BasePrices.__init__ of base_prices.py: the tickers are taken in upper case.
NewPrices(asset, tickers) ==
    [NoParse EXCEPT !.asset_type = asset, !.tickers = [i \in DOMAIN tickers |-> upper(tickers[i])]]

\* An empty-day branch that marks the first ticker only.
MarkTickers_FirstOnly(self, d) ==
    {marker_file(prices_dir(self.asset_type), self.tickers[1], d)}

\* parse_and_save, lines 103-108: a marker file for every ticker.
MarkTickers(self, d) ==
    {marker_file(prices_dir(self.asset_type), self.tickers[i], d) : i \in DOMAIN self.tickers}

\* parse_and_save, lines 120-125: for every ticker, in the order of the list,
\* the filtered table with the kept columns goes to save_daily_prices; a later
\* call for a path takes the place of an earlier one.
RECURSIVE SaveTickers(_, _, _, _, _)
SaveTickers(self, sorted, d, i, saved) ==
    IF i > Len(self.tickers) THEN saved
    ELSE LET ticker == self.tickers[i]
             ticker_data == SelectColumns(filter_ticker_data(self.asset_type, sorted, ticker))
             path == parquet_path(prices_dir(self.asset_type), ticker, d)
         IN  SaveTickers(self, sorted, d, i + 1,
                         {call \in saved : call.path # path}
                             \cup {[path |-> path, table |-> ticker_data]})

\* parse_and_save(data, date), sorted being what sort_index made of the table.
parse_and_save(self, data, d, sorted) ==
    IF data = <<>>
    THEN [self EXCEPT !.pc = "saved", !.date = d, !.data = data,
                      !.markers = @ \cup MarkTickers(self, d)]
    ELSE [self EXCEPT !.pc = "saved", !.date = d, !.data = data,
                      !.saved = SaveTickers(self, sorted, d, 1, @)]

----------------------------------------------------------------------------
(* The retrieval run: BasePrices, src/src/prices/base.py *)

\* A start that is not raised to available_from.
EffectiveStart_Requested(ds) == ds

\* BasePrices.__init__: date_start is raised to available_from.
EffectiveStart(ds) == IF ds >= AvailableFrom THEN ds ELSE AvailableFrom

\* retrieve_prices, lines 55-60: nothing to do when the range is empty.
RangeIsEmpty(ds, de) == ds >= de

\* A process that is not running.  prev_outcome and prev_day are history: how the
\* run before this one ended and the day it had reached, kept when that run was
\* over the same range; stable is history too: on the days before prev_day every
\* fetch of this run found the bucket as the run before had found it.  status is
\* history: the HTTP status of the last response a request of this run got;
\* order is history: the days whose iteration this run has finished, in the
\* order in which it finished them; spent is history, kept where the attempts
\* of a fetch are taken one at a time: the attempts of this run, on whatever
\* day, that raised a transient error.
IdleRun ==
    [pc |-> "idle", requested_start |-> 0, date_start |-> 0, date_end |-> 0,
     current_day |-> 0, key_id |-> FALSE, secret |-> FALSE,
     downloaded |-> 0, updated |-> 0, skipped |-> 0,
     file_exists_locally |-> FALSE, local_etag |-> NoEtag,
     attempt |-> 0, transient |-> 0, result |-> NoResult, err |-> "",
     fetched |-> {}, requested |-> {}, written |-> {}, status |-> 0,
     prev_outcome |-> "none", prev_day |-> 0, stable |-> TRUE, order |-> <<>>,
     spent |-> 0]

\* The places of a run taken step by step: at the head of the loop, before the
\* fetch, before the branches on its result, before create_empty_marker or
\* save_flat_file_bytes, and inside save_flat_file_bytes with the file open.
Running(r) == r.pc \in {"loop", "fetch", "apply", "write", "opened"}

\* A cache path taken from the first day of the range.
FlatFilePath_FirstDay(r) == get_flat_file_path(files_dir(AssetType), r.date_start)

\* The cache path and the object key of the day a run is at (lines 83-90).
FlatFilePath(r) == get_flat_file_path(files_dir(AssetType), r.current_day)
ObjectKey(r) == s3_path(S3Prefix, r.current_day)

\* BasePrices.__init__ and the head of retrieve_prices (lines 31-36, 55-79).
NewRun(old, ds, de, key_id, secret) ==
    LET start == EffectiveStart(ds)
        empty == RangeIsEmpty(start, de)
        same == old.outcome # "none" /\ old.date_start = start /\ old.date_end = de
    IN  [IdleRun EXCEPT !.pc = IF empty THEN "done" ELSE "loop",
                        !.requested_start = ds,
                        !.date_start = start,
                        !.date_end = de,
                        !.current_day = start,
                        !.key_id = IF empty THEN FALSE ELSE key_id,
                        !.secret = IF empty THEN FALSE ELSE secret,
                        !.prev_outcome = IF same THEN old.outcome ELSE "none",
                        !.prev_day = IF same THEN old.current_day ELSE 0]

\* A look at the cache that takes for the fingerprint of the day's file the
\* ETag that the last download of the day came with.
Prepare_StoredEtag(f, r) ==
    LET path == FlatFilePath(r)
        there == path_exists(f, path)
    IN  [r EXCEPT !.pc = "fetch",
                  !.file_exists_locally = there,
                  !.local_etag = IF ~there THEN NoEtag
                                 ELSE IF seen[ObjectKey(r)].exists
                                      THEN RemoteETag(seen[ObjectKey(r)])
                                 ELSE compute_file_md5(f[path]),
                  !.attempt = 0,
                  !.transient = 0,
                  !.result = NoResult]

\* Lines 89-98: the look at the local cache for the day.
Prepare(f, r) ==
    LET path == FlatFilePath(r)
        there == path_exists(f, path)
    IN  [r EXCEPT !.pc = "fetch",
                  !.file_exists_locally = there,
                  !.local_etag = IF there THEN compute_file_md5(f[path]) ELSE NoEtag,
                  !.attempt = 0,
                  !.transient = 0,
                  !.result = NoResult]

\* A wrapper that never gives up on a transient error.
AfterAttempt_NeverStops(r, out) ==
    LET n == r.attempt + 1
        counted == [r EXCEPT !.attempt = n,
                             !.transient = IF out.raises \in TransientErrors THEN @ + 1 ELSE @,
                             !.fetched = @ \cup {r.current_day},
                             !.requested = IF out.requested THEN @ \cup {r.current_day} ELSE @]
    IN  IF out.raises = "" THEN [counted EXCEPT !.pc = "apply", !.result = out.value]
        ELSE IF ~IsRetried(out.raises) THEN [counted EXCEPT !.pc = "aborted", !.err = out.raises]
        ELSE counted

\* A wrapper whose attempts are counted over the whole run: it gives up when
\* the transient errors of the run, on whatever day, have reached the limit.
AfterAttempt_SharedBudget(r, out) ==
    LET n == r.attempt + 1
        counted == [r EXCEPT !.attempt = n,
                             !.transient = IF out.raises \in TransientErrors THEN @ + 1 ELSE @,
                             !.fetched = @ \cup {r.current_day},
                             !.requested = IF out.requested THEN @ \cup {r.current_day} ELSE @]
    IN  IF out.raises = "" THEN [counted EXCEPT !.pc = "apply", !.result = out.value]
        ELSE IF ~IsRetried(out.raises) THEN [counted EXCEPT !.pc = "aborted", !.err = out.raises]
        ELSE IF StopAfterAttempt(r.spent + 1)
             THEN [counted EXCEPT !.pc = "aborted", !.err = "RetryError"]
        ELSE counted

\* with_retry's wrapper after one attempt that ended in out: hand the value back,
\* try again, give up with RetryError, or let the exception through.  attempt is
\* tenacity's attempt number; transient (history) counts the attempts that raised
\* one of the transient kinds.
AfterAttempt(r, out) ==
    LET n == r.attempt + 1
        counted == [r EXCEPT !.attempt = n,
                             !.transient = IF out.raises \in TransientErrors THEN @ + 1 ELSE @,
                             !.fetched = @ \cup {r.current_day},
                             !.requested = IF out.requested THEN @ \cup {r.current_day} ELSE @]
    IN  IF out.raises = "" THEN [counted EXCEPT !.pc = "apply", !.result = out.value]
        ELSE IF ~IsRetried(out.raises) THEN [counted EXCEPT !.pc = "aborted", !.err = out.raises]
        ELSE IF StopAfterAttempt(n) THEN [counted EXCEPT !.pc = "aborted", !.err = "RetryError"]
        ELSE counted

\* Lines 100-107: fetch_aggs(...), the wrapped get_file_from_s3, called until it
\* returns or raises.  faults[i] is what the i-th request ends in, and the last
\* of faults what every later one ends in.
RECURSIVE fetch_aggs(_, _, _)
fetch_aggs(r, obj, faults) ==
    LET out == get_file_from_s3(obj, r.key_id, r.secret, r.local_etag, Head(faults))
        after == AfterAttempt(r, out)
    IN  IF after.pc = "fetch"
        THEN fetch_aggs(after, obj, IF Len(faults) = 1 THEN faults ELSE Tail(faults))
        ELSE after

\* A step to the next day that passes over a day.
NextDay_SkipsADay(r) ==
    [r EXCEPT !.pc = "loop", !.current_day = @ + 2, !.attempt = 0, !.transient = 0,
              !.order = Append(@, r.current_day)]

\* Lines 130-138: the info line, then the next day.  The attempt number is
\* tenacity's and is gone when fetch_aggs has returned.
NextDay(r) ==
    [r EXCEPT !.pc = "loop", !.current_day = @ + 1, !.attempt = 0, !.transient = 0,
              !.order = Append(@, r.current_day)]

\* A marking that moves the raw file, if any, to the marker's path.
MarkEmpty_MovesRaw(f, path) ==
    IF ~path_exists(f, empty_marker_path(path))
    THEN [create_empty_marker(f, path) EXCEPT ![path] = NoFile]
    ELSE f

\* Lines 113-118: the marker is created unless it is there already.
MarkEmpty(f, path) ==
    IF ~path_exists(f, empty_marker_path(path)) THEN create_empty_marker(f, path) ELSE f

\* A count that takes every download for a new file.
CountDownload_AlwaysNew(r) == [r EXCEPT !.downloaded = @ + 1]

\* Lines 121-126: a downloaded file counts as updated when a file was cached.
CountDownload(r) ==
    IF r.file_exists_locally THEN [r EXCEPT !.updated = @ + 1]
    ELSE [r EXCEPT !.downloaded = @ + 1]

\* A save that opens the file and writes nothing.
save_flat_file_bytes_NoWrite(f, b, path) == open_wb(f, path)

\* save_flat_file_bytes: open, write, close.
save_flat_file_bytes(f, b, path) == write_bytes(open_wb(f, path), path, b)

\* A branch for downloaded bytes that saves them only when they are more than
\* one byte long.
ApplyFiles_DropsShort(f, r) ==
    IF ~r.result.has_bytes /\ r.result.exists THEN f
    ELSE IF ~r.result.exists THEN MarkEmpty(f, FlatFilePath(r))
    ELSE IF r.result.has_bytes /\ Len(r.result.bytes) > 1
         THEN save_flat_file_bytes(f, r.result.bytes, FlatFilePath(r))
    ELSE f

\* Lines 109-128: what the run does with the result of the fetch.  The files after.
ApplyFiles(f, r) ==
    IF ~r.result.has_bytes /\ r.result.exists THEN f
    ELSE IF ~r.result.exists THEN MarkEmpty(f, FlatFilePath(r))
    ELSE IF r.result.has_bytes THEN save_flat_file_bytes(f, r.result.bytes, FlatFilePath(r))
    ELSE f

\* Counters that take a missing object for a skipped day.
ApplyCounters_NotFoundSkipped(r) ==
    IF ~r.result.has_bytes /\ r.result.exists THEN [r EXCEPT !.skipped = @ + 1]
    ELSE IF ~r.result.exists THEN [r EXCEPT !.skipped = @ + 1]
    ELSE IF r.result.has_bytes THEN CountDownload(r)
    ELSE r

\* Lines 109-128: the counters after.
ApplyCounters(r) ==
    IF ~r.result.has_bytes /\ r.result.exists THEN [r EXCEPT !.skipped = @ + 1]
    ELSE IF ~r.result.exists THEN r
    ELSE IF r.result.has_bytes THEN CountDownload(r)
    ELSE r

\* Lines 109-128: create_empty_marker or save_flat_file_bytes is called.
Writes(f, r) ==
    IF ~r.result.has_bytes /\ r.result.exists THEN FALSE
    ELSE IF ~r.result.exists THEN ~path_exists(f, empty_marker_path(FlatFilePath(r)))
    ELSE r.result.has_bytes

\* History: the days of this run on which a cache write was made.
NoteWrite(r, wrote) == [r EXCEPT !.written = IF wrote THEN @ \cup {r.current_day} ELSE @]

\* History: the last request of the fetch of the day, when one was sent, got
\* the response of this status.
NoteStatus(r, obj, faults) ==
    LET last == IF r.attempt < Len(faults) THEN r.attempt ELSE Len(faults)
    IN  [r EXCEPT !.status = IF r.current_day \in r.requested
                             THEN HttpStatus(obj, r.local_etag, faults[last])
                             ELSE @]

\* History: the fetch of the day was answered, the bucket holding obj.
NoteSeen(r, before, obj) ==
    [r EXCEPT !.stable = @ /\ (r.current_day < r.prev_day => before = obj)]

NoPrev == [outcome |-> "none", date_start |-> 0, date_end |-> 0, current_day |-> 0]

\* History: what an ended run leaves for the next one.
Summary(r) ==
    [outcome |-> r.pc, date_start |-> r.date_start, date_end |-> r.date_end,
     current_day |-> r.current_day]

Init ==
    /\ fs = [path \in Paths |-> NoFile]
    /\ seen = [k \in Keys |-> Unseen]
    /\ env \in [key_id : BOOLEAN, secret : BOOLEAN]
    /\ run = [p \in Procs |-> IdleRun]
    /\ prev = NoPrev
    /\ retry = NoCall
    /\ norm = NoParse

\* A process constructs the object for [ds, de) and calls retrieve_prices.
StartRun(p, ds, de) ==
    /\ run[p].pc = "idle"
    /\ run' = [run EXCEPT ![p] = NewRun(prev, ds, de, env.key_id, env.secret)]
    /\ prev' = NoPrev
    /\ UNCHANGED <<fs, seen, env, norm, retry>>

\* The faults of the requests of one fetch_aggs call: k transient ones of kind t,
\* then last from there on ("" for an answer of the bucket).
FaultSeq(k, t, last) == [i \in 1..k |-> t] \o <<last>>

\* What can happen to the requests of one fetch_aggs call.
FaultSeqs ==
    {FaultSeq(0, "", last) : last \in (Faults \ TransientErrors) \cup {""}}
        \cup {FaultSeq(k, t, last) : k \in 1..(MAX_RETRIES - 1), t \in TransientErrors,
                                     last \in (Faults \ TransientErrors) \cup {""}}
        \cup {FaultSeq(MAX_RETRIES - 1, t, t) : t \in TransientErrors}

\* What the bucket can hold under the key when a request of faults is answered.
Held(faults) == IF faults[Len(faults)] = "" THEN Objects ELSE {NoObject}

\* One iteration of the loop of retrieve_prices (lines 81-138), the day
\* current_day: the look at the cache, the fetch with its retries, and the
\* writes and counters that follow it, or the exception that ends the run.
ReconcileDay(p, obj, faults) ==
    /\ run[p].pc = "loop"
    /\ run[p].current_day < run[p].date_end
    /\ LET r == Prepare(fs, run[p])
           key == ObjectKey(r)
           got == NoteStatus(fetch_aggs(r, obj, faults), obj, faults)
       IN  IF got.pc = "aborted"
           THEN /\ run' = [run EXCEPT ![p] = got]
                /\ UNCHANGED <<fs, seen>>
           ELSE /\ fs' = ApplyFiles(fs, got)
                /\ seen' = [seen EXCEPT ![key] = obj]
                /\ run' = [run EXCEPT ![p] =
                             NextDay(NoteSeen(NoteWrite(ApplyCounters(got), Writes(fs, got)),
                                              seen[key], obj))]
    /\ UNCHANGED <<env, norm, retry, prev>>

\* Lines 81 and 140-144: the loop ends and the summary is logged.
Finish(p) ==
    /\ run[p].pc = "loop"
    /\ run[p].current_day >= run[p].date_end
    /\ run' = [run EXCEPT ![p].pc = "done"]
    /\ UNCHANGED <<fs, seen, env, norm, retry, prev>>

\* retrieve_prices has returned or raised: the process ends.  With note, the
\* history keeps how the run went.
Exit(p, note) ==
    /\ run[p].pc \in {"done", "aborted", "killed"}
    /\ run' = [run EXCEPT ![p] = IdleRun]
    /\ prev' = IF note THEN Summary(run[p]) ELSE NoPrev
    /\ UNCHANGED <<fs, seen, env, norm, retry>>

Next ==
    \/ \E p \in SingleProc, ds \in Days, de \in EndDays : StartRun(p, ds, de)
    \/ \E p \in SingleProc, faults \in FaultSeqs :
          \E obj \in Held(faults) : ReconcileDay(p, obj, faults)
    \/ \E p \in SingleProc : Finish(p)
    \/ \E p \in SingleProc : Exit(p, FALSE)

Spec == Init /\ [][Next]_vars

\* The same runs with the history of the run before kept, for what is said of
\* a run that follows another over the same range.  The requested start is taken
\* on or after available_from, and a fetch is answered at once, denied at once
\* (403) or times out on every attempt.
RerunFaultSeqs ==
    {FaultSeq(0, "", ""), FaultSeq(0, "", "ClientError403"),
     FaultSeq(MAX_RETRIES - 1, "ReadTimeoutError", "ReadTimeoutError")}

NextRerun ==
    \/ \E p \in SingleProc, ds \in {d \in Days : d >= AvailableFrom}, de \in EndDays :
          StartRun(p, ds, de)
    \/ \E p \in SingleProc, faults \in RerunFaultSeqs :
          \E obj \in Held(faults) : ReconcileDay(p, obj, faults)
    \/ \E p \in SingleProc : Finish(p)
    \/ \E p \in SingleProc : Exit(p, TRUE)

SpecRerun == Init /\ [][NextRerun]_vars

----------------------------------------------------------------------------
(* The run step by step: the system calls of one iteration taken one at a   *)
(* time, for processes that share the cache directory and for a process     *)
(* that is terminated.  The bucket does not change: a key that has been     *)
(* answered for holds what it held then.                                    *)

\* What the bucket can hold under key, given what it was seen to hold.
StableObjects(key) == IF seen[key] = Unseen THEN Objects ELSE {seen[key]}

\* Lines 89-97: os.path.exists and compute_file_md5 on the raw file of the day.
Look(p) ==
    /\ run[p].pc = "loop"
    /\ run[p].current_day < run[p].date_end
    /\ run' = [run EXCEPT ![p] = Prepare(fs, run[p])]
    /\ UNCHANGED <<fs, seen, env, norm, retry, prev>>

\* Lines 100-107: fetch_aggs with its retries.
Fetch(p, obj, faults) ==
    /\ run[p].pc = "fetch"
    /\ obj \in StableObjects(ObjectKey(run[p]))
    /\ LET key == ObjectKey(run[p])
           got == NoteStatus(fetch_aggs(run[p], obj, faults), obj, faults)
       IN  IF got.pc = "aborted"
           THEN run' = [run EXCEPT ![p] = got] /\ seen' = seen
           ELSE /\ run' = [run EXCEPT ![p] = NoteSeen(got, seen[key], obj)]
                /\ seen' = [seen EXCEPT ![key] = obj]
    /\ UNCHANGED <<fs, env, norm, retry, prev>>

\* Lines 109-126: the branch on the result, the counter, and for a missing
\* object the look at the marker (os.path.exists, line 115).
Apply(p) ==
    /\ run[p].pc = "apply"
    /\ LET wrote == Writes(fs, run[p])
           counted == NoteWrite(ApplyCounters(run[p]), wrote)
       IN  run' = [run EXCEPT ![p] = IF wrote THEN [counted EXCEPT !.pc = "write"]
                                              ELSE NextDay(counted)]
    /\ UNCHANGED <<fs, seen, env, norm, retry, prev>>

\* Line 116: create_empty_marker; or line 128, save_flat_file_bytes as far as
\* open(file_path, "wb"), which truncates the file.
Write(p) ==
    /\ run[p].pc = "write"
    /\ IF ~run[p].result.exists
       THEN /\ fs' = create_empty_marker(fs, FlatFilePath(run[p]))
            /\ run' = [run EXCEPT ![p] = NextDay(run[p])]
       ELSE /\ fs' = open_wb(fs, FlatFilePath(run[p]))
            /\ run' = [run EXCEPT ![p].pc = "opened"]
    /\ UNCHANGED <<seen, env, norm, retry, prev>>

\* save_flat_file_bytes, lines 204-205: f.write(file_bytes) and the close.
Close(p) ==
    /\ run[p].pc = "opened"
    /\ fs' = write_bytes(fs, FlatFilePath(run[p]), run[p].result.bytes)
    /\ run' = [run EXCEPT ![p] = NextDay(run[p])]
    /\ UNCHANGED <<seen, env, norm, retry, prev>>

\* The process is terminated.  With the file open, part holds what of the
\* bytes had reached the file: any proper prefix of them.
Kill(p, part) ==
    /\ Running(run[p])
    /\ IF run[p].pc = "opened"
       THEN /\ part \in Prefixes(run[p].result.bytes)
            /\ fs' = write_bytes(fs, FlatFilePath(run[p]), part)
       ELSE /\ part = <<>>
            /\ fs' = fs
    /\ run' = [run EXCEPT ![p].pc = "killed"]
    /\ UNCHANGED <<seen, env, norm, retry, prev>>

\* The requests of a fetch that is answered at once.
Answered == {FaultSeq(0, "", "")}

\* The ranges of the step-by-step runs start at available_from.
NextKill ==
    \/ \E p \in SingleProc, de \in EndDays : StartRun(p, AvailableFrom, de)
    \/ \E p \in SingleProc : Look(p)
    \/ \E p \in SingleProc, obj \in Objects, faults \in Answered : Fetch(p, obj, faults)
    \/ \E p \in SingleProc : Apply(p)
    \/ \E p \in SingleProc : Write(p)
    \/ \E p \in SingleProc : Close(p)
    \/ \E p \in SingleProc, part \in UNION {Prefixes(b) : b \in Bodies} : Kill(p, part)
    \/ \E p \in SingleProc : Finish(p)
    \/ \E p \in SingleProc : Exit(p, FALSE)

\* One process, which can be terminated at any step.
SpecKill == Init /\ [][NextKill]_vars

\* The same, the history of the run before kept: what a run does that follows
\* a terminated one.
NextCrash ==
    \/ \E p \in SingleProc, de \in EndDays : StartRun(p, AvailableFrom, de)
    \/ \E p \in SingleProc : Look(p)
    \/ \E p \in SingleProc, obj \in Objects, faults \in Answered : Fetch(p, obj, faults)
    \/ \E p \in SingleProc : Apply(p)
    \/ \E p \in SingleProc : Write(p)
    \/ \E p \in SingleProc : Close(p)
    \/ \E p \in SingleProc, part \in UNION {Prefixes(b) : b \in Bodies} : Kill(p, part)
    \/ \E p \in SingleProc : Finish(p)
    \/ \E p \in SingleProc : Exit(p, TRUE)

SpecCrash == Init /\ [][NextCrash]_vars

NextRace ==
    \/ \E p \in Procs, de \in EndDays : StartRun(p, AvailableFrom, de)
    \/ \E p \in Procs : Look(p)
    \/ \E p \in Procs, obj \in Objects, faults \in Answered : Fetch(p, obj, faults)
    \/ \E p \in Procs : Apply(p)
    \/ \E p \in Procs : Write(p)
    \/ \E p \in Procs : Close(p)
    \/ \E p \in Procs : Finish(p)
    \/ \E p \in Procs : Exit(p, FALSE)

\* Two processes over the same cache directory, their steps interleaved.
SpecRace == Init /\ [][NextRace]_vars

----------------------------------------------------------------------------
(* One call of a function wrapped by with_retry (utils.py, lines 84-112),   *)
(* taken by itself with the delays it was wrapped with.                     *)

\* The (min_delay, max_delay) a function is wrapped with: those of constants.py
\* and the small ones.
DelayPairs ==
    {<<MIN_DELAY, MAX_DELAY>>}
        \cup {pair \in (0..DelayBound) \X (0..DelayBound) : pair[1] <= pair[2]}

\* The wrapper is called.
CallWrapped(min_delay, max_delay) ==
    /\ retry.pc = "none"
    /\ retry' = [NoCall EXCEPT !.pc = "calling", !.min_delay = min_delay, !.max_delay = max_delay]
    /\ UNCHANGED <<fs, seen, env, norm, run, prev>>

\* An attempt raises e: the exception goes through, or the wrapper gives up, or
\* it sleeps wait_exponential seconds before the next attempt.
AttemptRaises(e) ==
    /\ retry.pc = "calling"
    /\ LET n == retry.attempt + 1
       IN  retry' =
               IF ~IsRetried(e) THEN [retry EXCEPT !.pc = "raised", !.attempt = n, !.err = e]
               ELSE IF StopAfterAttempt(n)
                    THEN [retry EXCEPT !.pc = "raised", !.attempt = n, !.err = "RetryError"]
               ELSE [retry EXCEPT !.pc = "sleeping", !.attempt = n,
                                  !.delays = Append(@, wait_exponential(retry.min_delay,
                                                                       retry.max_delay, n))]
    /\ UNCHANGED <<fs, seen, env, norm, run, prev>>

\* An attempt returns.
AttemptReturns ==
    /\ retry.pc = "calling"
    /\ retry' = [retry EXCEPT !.pc = "returned", !.attempt = @ + 1]
    /\ UNCHANGED <<fs, seen, env, norm, run, prev>>

\* The sleep is over.
Wake ==
    /\ retry.pc = "sleeping"
    /\ retry' = [retry EXCEPT !.pc = "calling"]
    /\ UNCHANGED <<fs, seen, env, norm, run, prev>>

\* The call is over.
EndCall ==
    /\ retry.pc \in {"returned", "raised"}
    /\ retry' = NoCall
    /\ UNCHANGED <<fs, seen, env, norm, run, prev>>

NextBackoff ==
    \/ \E pair \in DelayPairs : CallWrapped(pair[1], pair[2])
    \/ \E e \in TransientErrors \cup {"RuntimeError"} : AttemptRaises(e)
    \/ AttemptReturns
    \/ Wake
    \/ EndCall

SpecBackoff == Init /\ [][NextBackoff]_vars

----------------------------------------------------------------------------
(* The run with the attempts of a fetch taken one at a time: the wrapper of  *)
(* with_retry (utils.py, lines 106-110) around get_file_from_s3, called     *)
(* at lines 100-107 of base.py.                                             *)

\* What one request can end in where the attempts are taken one at a time.
AttemptFaults == {"", "ReadTimeoutError", "ClientError403"}

\* History: the attempt that ended in out raised a transient error, or not.
NoteSpent(r, out) == [r EXCEPT !.spent = IF out.raises \in TransientErrors THEN @ + 1 ELSE @]

\* One attempt of fetch_aggs: get_file_from_s3 is called, and the wrapper hands
\* its value back, lets its exception through, gives up, or goes on to the next
\* attempt (the sleep before it is left out).  The bucket does not change.
Attempt(p, obj, fault) ==
    /\ run[p].pc = "fetch"
    /\ obj \in (IF fault = "" THEN StableObjects(ObjectKey(run[p])) ELSE {NoObject})
    /\ LET r == run[p]
           key == ObjectKey(r)
           out == get_file_from_s3(obj, r.key_id, r.secret, r.local_etag, fault)
           after == NoteSpent(NoteStatus(AfterAttempt(r, out), obj, <<fault>>), out)
       IN  IF after.pc = "apply"
           THEN /\ run' = [run EXCEPT ![p] = NoteSeen(after, seen[key], obj)]
                /\ seen' = [seen EXCEPT ![key] = obj]
           ELSE run' = [run EXCEPT ![p] = after] /\ seen' = seen
    /\ UNCHANGED <<fs, env, norm, retry, prev>>

NextRetry ==
    \/ \E p \in SingleProc, de \in EndDays : StartRun(p, AvailableFrom, de)
    \/ \E p \in SingleProc : Look(p)
    \/ \E p \in SingleProc, obj \in Objects, fault \in AttemptFaults : Attempt(p, obj, fault)
    \/ \E p \in SingleProc : Apply(p)
    \/ \E p \in SingleProc : Write(p)
    \/ \E p \in SingleProc : Close(p)
    \/ \E p \in SingleProc : Finish(p)
    \/ \E p \in SingleProc : Exit(p, FALSE)

\* One process, the attempts of its fetches taken one at a time.
SpecRetry == Init /\ [][NextRetry]_vars

\* A step of the run itself.  Every attempt returns or raises, and the process
\* is not held up: a step that the run can take is taken at last.
RunStep ==
    \E p \in SingleProc :
        \/ Look(p)
        \/ \E obj \in Objects, fault \in AttemptFaults : Attempt(p, obj, fault)
        \/ Apply(p)
        \/ Write(p)
        \/ Close(p)
        \/ Finish(p)

SpecRetryFair == Init /\ [][NextRetry]_vars /\ WF_vars(RunStep)

----------------------------------------------------------------------------
(* One call of parse_and_save (base_prices.py, lines 99-125), taken by      *)
(* itself on an object of one of the asset classes.                         *)

\* The object is made for the tickers and parse_and_save is called with a
\* day's raw table.
ParseAndSave(asset, tickers, d) ==
    /\ norm.pc = "none"
    /\ \E data \in RawTables(MaxRows) :
          \E sorted \in sort_index(Reindexed(data)) :
              norm' = parse_and_save(NewPrices(asset, tickers), data, d, sorted)
    /\ UNCHANGED <<fs, seen, env, run, prev, retry>>

\* The call is over.
EndParse ==
    /\ norm.pc = "saved"
    /\ norm' = NoParse
    /\ UNCHANGED <<fs, seen, env, run, prev, retry>>

NextParse ==
    \/ \E asset \in AssetTypes, tickers \in TickerLists, d \in {0, MaxDay} :
          ParseAndSave(asset, tickers, d)
    \/ EndParse

\* The call needs no credentials: they are taken as set.
InitParse == Init /\ env.key_id /\ env.secret

SpecParse == InitParse /\ [][NextParse]_vars

----------------------------------------------------------------------------
(* What the claims speak of *)

RawPath(d) == get_flat_file_path(files_dir(AssetType), d)
MarkerPath(d) == empty_marker_path(RawPath(d))
HasRaw(f, d) == path_exists(f, RawPath(d))
HasMarker(f, d) == path_exists(f, MarkerPath(d))

\* The state of a day in the cache f.
DayState(f, d) ==
    IF HasRaw(f, d) /\ HasMarker(f, d) THEN "Both"
    ELSE IF HasRaw(f, d) THEN "Cached"
    ELSE IF HasMarker(f, d) THEN "CachedEmpty"
    ELSE "Absent"

\* The days of a run's range, and those it has reconciled so far.
RangeDays(r) == {d \in Days : r.date_start <= d /\ d < r.date_end}
DoneDays(r) == {d \in Days : r.date_start <= d /\ d < r.current_day}

\* This step is an iteration of the loop of p1: it reconciled the day, or raised.
DayStep == run["p1"].pc = "loop" /\ run'["p1"].pc \in {"loop", "aborted"}
DayReconciled == run["p1"].pc = "loop" /\ run'["p1"].pc = "loop"
DayRaised == run["p1"].pc = "loop" /\ run'["p1"].pc = "aborted"

\* Of the three counters, this step changes only the named one, by one.
OnlySkipped ==
    /\ run'["p1"].skipped = run["p1"].skipped + 1
    /\ run'["p1"].downloaded = run["p1"].downloaded
    /\ run'["p1"].updated = run["p1"].updated
OnlyUpdated ==
    /\ run'["p1"].updated = run["p1"].updated + 1
    /\ run'["p1"].downloaded = run["p1"].downloaded
    /\ run'["p1"].skipped = run["p1"].skipped
NoCounter ==
    /\ run'["p1"].updated = run["p1"].updated
    /\ run'["p1"].downloaded = run["p1"].downloaded
    /\ run'["p1"].skipped = run["p1"].skipped

\* This run follows a run over the same range that completed (or was cut short),
\* and so far has found the bucket as that run had found it.
RerunOfCompleted(r) == r.prev_outcome = "done" /\ r.stable
RerunOfAborted(r) == r.prev_outcome = "aborted" /\ r.stable

----------------------------------------------------------------------------
(* C1 *)

\* C1, the part that holds: in a run that follows a completed run over the same
\* range, with the bucket unchanged, no cache write is made and the files stay as
\* they are, downloaded = 0 and updated = 0, and skipped counts the days for
\* which the bucket holds a file; the days it reports as missing (CachedEmpty)
\* are fetched again and counted by no counter.
C1_RerunWritesNothing ==
    /\ [](LET r == run["p1"]
          IN  (r.pc \in {"loop", "done"} /\ RerunOfCompleted(r)) =>
                  /\ r.written = {}
                  /\ r.downloaded = 0 /\ r.updated = 0
                  /\ r.skipped = Cardinality({d \in DoneDays(r) : seen[s3_path(S3Prefix, d)].exists})
                  /\ r.fetched = DoneDays(r))
    /\ [][(DayStep /\ RerunOfCompleted(run'["p1"])) => fs' = fs]_vars

\* C1: a run that follows a completed run over the same range, with the bucket
\* unchanged, writes nothing, and counts every day of the range as skipped
\* (downloaded = 0, updated = 0, skipped = number of days), the CachedEmpty days
\* included.
C1_AllDaysSkipped ==
    LET r == run["p1"]
    IN  (r.pc = "done" /\ RerunOfCompleted(r)) =>
            /\ r.written = {}
            /\ r.downloaded = 0 /\ r.updated = 0
            /\ r.skipped = Cardinality(RangeDays(r))

\* A rerun over two days or more has completed, one day skipped and one CachedEmpty.
C1_Witness ==
    LET r == run["p1"]
    IN  /\ r.pc = "done" /\ RerunOfCompleted(r)
        /\ Cardinality(RangeDays(r)) >= 2
        /\ r.skipped >= 1
        /\ \E d \in RangeDays(r) : DayState(fs, d) = "CachedEmpty"

----------------------------------------------------------------------------
(* C2 *)

\* C2: no day has both a raw cache file and an empty marker.
C2_NeverBoth == \A d \in Days : ~(HasRaw(fs, d) /\ HasMarker(fs, d))

----------------------------------------------------------------------------
(* C3 *)

\* C3: for a day whose raw file is cached with fingerprint F the fetch carries F;
\* when the bucket holds the bytes of F the answer is Unchanged, nothing is
\* written and only skipped grows, by one; when the answer brings data of another
\* fingerprint, the file is overwritten with the bytes and only updated grows, by one.
C3_ConditionalFetch ==
    [][LET r == run["p1"]
           q == run'["p1"]
           path == FlatFilePath(r)
           F == compute_file_md5(fs[path])
           obj == seen'[ObjectKey(r)]
       IN  (DayReconciled /\ path_exists(fs, path)) =>
               /\ q.file_exists_locally /\ q.local_etag = F /\ F # NoEtag
               /\ (obj.exists /\ RemoteETag(obj) = F) => q.result = Unchanged
               /\ (obj.exists /\ RemoteETag(obj) # F) => q.result = Found(obj.body, RemoteETag(obj))
               /\ q.result = Unchanged => (fs' = fs /\ OnlySkipped /\ q.written = r.written)
               /\ (q.result.has_bytes /\ q.result.etag # F) =>
                      /\ fs' = [fs EXCEPT ![path] = File(q.result.bytes)]
                      /\ OnlyUpdated]_vars

\* A cached day has been updated and another found unchanged in one run.
C3_Witness ==
    LET r == run["p1"]
    IN  r.pc = "loop" /\ r.updated >= 1 /\ r.skipped >= 1 /\ r.file_exists_locally

----------------------------------------------------------------------------
(* C4 *)

\* C4, what the loop does instead: a day that has an empty marker and no raw file
\* is fetched again, unconditionally; when the bucket still has no file for it,
\* nothing is written and no counter grows, skipped included.
C4_MarkerDayFetchedAgain ==
    [][LET r == run["p1"]
           q == run'["p1"]
       IN  (DayStep /\ DayState(fs, r.current_day) = "CachedEmpty") =>
               /\ r.current_day \in q.fetched
               /\ ~q.file_exists_locally /\ q.local_etag = NoEtag
               /\ (DayReconciled /\ q.result = NotFound) =>
                      (fs' = fs /\ NoCounter /\ q.written = r.written)]_vars

\* C4: a day that has an empty marker already is reconciled without a fetch
\* call, and skipped grows by one.
C4_MarkerDaySkipped ==
    [][LET r == run["p1"]
           q == run'["p1"]
       IN  (DayReconciled /\ DayState(fs, r.current_day) = "CachedEmpty") =>
               /\ q.fetched = r.fetched
               /\ q.skipped = r.skipped + 1]_vars

\* A day that had its marker already was fetched and found missing again: the
\* only day of the run so far, nothing written, nothing counted.
C4_Witness ==
    LET r == run["p1"]
    IN  /\ r.pc = "loop" /\ r.current_day = r.date_start + 1
        /\ r.result = NotFound /\ r.written = {} /\ r.fetched = {r.date_start}
        /\ DayState(fs, r.date_start) = "CachedEmpty"
        /\ r.skipped = 0

----------------------------------------------------------------------------
(* C5 *)

\* C5 (as amended): in a run that follows a run over the same range that was cut
\* short at day prev_day, with the bucket unchanged, cache writes are made only
\* for prev_day and the days after it; a fetch is made for every day of the
\* range, the days reconciled before included.
C5_ResumeWritesOnlyRemaining ==
    LET r == run["p1"]
    IN  (r.pc \in {"loop", "done"} /\ RerunOfAborted(r)) =>
            /\ \A d \in r.written : d >= r.prev_day
            /\ r.fetched = DoneDays(r)

\* C5 as stated: in such a run writes and fetch calls are made only for
\* prev_day and the days after it.
C5_ResumeFetchesOnlyRemaining ==
    LET r == run["p1"]
    IN  (r.pc \in {"loop", "done"} /\ RerunOfAborted(r)) =>
            /\ \A d \in r.written : d >= r.prev_day
            /\ \A d \in r.fetched : d >= r.prev_day

\* A run cut short after its first day was run again to the end: the first day
\* was fetched and not written, a later day written.
C5_Witness ==
    LET r == run["p1"]
    IN  /\ r.pc = "done" /\ RerunOfAborted(r)
        /\ r.prev_day > r.date_start
        /\ r.date_start \in r.fetched
        /\ DayState(fs, r.date_start) = "Cached"
        /\ r.written # {}

----------------------------------------------------------------------------
(* C6 *)

\* C6: a fetch that raises a transient error on every attempt is called
\* MAX_RETRIES times and then gives up with RetryError; the run ends there, no
\* later day is fetched, and the files are as they were before the day.
C6_RetryBounded ==
    /\ [](LET r == run["p1"]
          IN  /\ r.attempt <= MAX_RETRIES
              /\ (r.pc = "aborted" /\ r.transient = r.attempt) =>
                     (r.err = "RetryError" /\ r.attempt = MAX_RETRIES)
              /\ (r.pc = "aborted" /\ r.err = "RetryError") =>
                     /\ r.attempt = MAX_RETRIES /\ r.transient = MAX_RETRIES
                     /\ r.fetched = DoneDays(r) \cup {r.current_day}
                     /\ r.current_day \notin r.written)
    /\ [][DayRaised => fs' = fs]_vars
    /\ [][run["p1"].pc = "aborted" => run'["p1"].pc = "idle"]_vars

\* The first of two days or more gave up after MAX_RETRIES transient errors.
C6_Witness ==
    LET r == run["p1"]
    IN  /\ r.pc = "aborted" /\ r.err = "RetryError"
        /\ r.attempt = MAX_RETRIES
        /\ r.current_day + 1 < r.date_end

----------------------------------------------------------------------------
(* C7 *)

\* The exceptions the fetch can raise that are not transient.
NonTransient == {"RuntimeError", "ValueError", "OtherError"}

\* C7: an error outside the transient set is never retried: the attempt that
\* raises it is the last call of the fetch (the only one when it is raised at
\* once), the run ends with that error, and no later day is fetched.
C7_NonTransientNotRetried ==
    /\ [](LET r == run["p1"]
          IN  /\ r.attempt <= r.transient + 1
              /\ r.pc = "aborted" =>
                     \/ r.err = "RetryError" /\ r.transient = r.attempt
                     \/ /\ r.err \in NonTransient
                        /\ r.attempt = r.transient + 1
                        /\ r.fetched = DoneDays(r) \cup {r.current_day}
                        /\ r.current_day \notin r.written)
    /\ [][run["p1"].pc = "aborted" => run'["p1"].pc = "idle"]_vars

\* Access was denied on the first attempt of the first of two days or more.
C7_Witness ==
    LET r == run["p1"]
    IN  /\ r.pc = "aborted" /\ r.err = "RuntimeError"
        /\ r.attempt = 1
        /\ r.current_day + 1 < r.date_end

----------------------------------------------------------------------------
(* C8 *)

\* C8: the state of a day changes only from Absent to CachedEmpty, from Absent
\* to Cached, and from Cached to Cached with other bytes.
C8_TransitionsRestricted ==
    [][\A d \in Days :
          \/ /\ DayState(fs', d) = DayState(fs, d)
             /\ fs'[MarkerPath(d)] = fs[MarkerPath(d)]
             /\ \/ fs'[RawPath(d)] = fs[RawPath(d)]
                \/ DayState(fs, d) = "Cached"
          \/ DayState(fs, d) = "Absent" /\ DayState(fs', d) \in {"CachedEmpty", "Cached"}]_vars

----------------------------------------------------------------------------
(* C9 *)

\* C9: no step deletes a raw file or a marker, so a day that has either never
\* returns to Absent.
C9_NeverBackToAbsent ==
    [][/\ \A path \in Paths : fs[path].exists => fs'[path].exists
       /\ \A d \in Days : DayState(fs, d) # "Absent" => DayState(fs', d) # "Absent"]_vars

\* A later run has gone over a day that was cached and has overwritten the file.
C9_Witness ==
    LET r == run["p1"]
    IN  /\ r.pc = "loop" /\ r.current_day > r.date_start
        /\ r.file_exists_locally /\ r.result.has_bytes
        /\ HasRaw(fs, r.current_day - 1)

----------------------------------------------------------------------------
(* C10 *)

\* C10: the effective start is the later of the requested start and
\* available_from; a run whose effective start is not before its end makes no
\* fetch and no write; no day before available_from is ever fetched.
C10_AvailabilityFloor ==
    /\ [](LET r == run["p1"]
          IN  r.pc # "idle" =>
                  /\ r.date_start >= r.requested_start /\ r.date_start >= AvailableFrom
                  /\ r.date_start \in {r.requested_start, AvailableFrom}
                  /\ r.date_start >= r.date_end =>
                         (r.pc = "done" /\ r.fetched = {} /\ r.written = {})
                  /\ \A d \in r.fetched \cup r.written : d >= AvailableFrom)
    /\ [][(run["p1"].pc = "idle" /\ run'["p1"].date_start >= run'["p1"].date_end) =>
             (fs' = fs /\ run'["p1"].pc = "done")]_vars
    /\ [][\A d \in Days : d < AvailableFrom =>
             (fs'[RawPath(d)] = fs[RawPath(d)] /\ fs'[MarkerPath(d)] = fs[MarkerPath(d)])]_vars

\* A range that lies before available_from was asked for, and the run is over.
C10_Witness ==
    LET r == run["p1"]
    IN  /\ r.pc = "done"
        /\ r.requested_start < r.date_end /\ r.date_end <= AvailableFrom
        /\ r.fetched = {}

----------------------------------------------------------------------------
(* C11 *)

\* C11: when a day has neither raw file nor marker and the fetch, sent without a
\* fingerprint, is answered that the object does not exist (404), no error is
\* raised, the marker of the day is created, no raw file is written, and neither
\* downloaded nor updated grows.
C11_NotFoundOnAbsent ==
    [][LET r == run["p1"]
           q == run'["p1"]
           d == r.current_day
       IN  (DayStep /\ DayState(fs, d) = "Absent" /\ d \in q.requested /\ q.status = 404) =>
               /\ DayReconciled /\ q.err = ""
               /\ q.local_etag = NoEtag /\ q.result = NotFound
               /\ fs' = [fs EXCEPT ![MarkerPath(d)] = File(<<>>)]
               /\ DayState(fs', d) = "CachedEmpty"
               /\ q.downloaded = r.downloaded /\ q.updated = r.updated]_vars

\* The first day of a run had nothing cached and was answered 404.
C11_Witness ==
    LET r == run["p1"]
    IN  /\ r.pc = "loop" /\ r.current_day = r.date_start + 1
        /\ r.status = 404 /\ r.written = {r.date_start}
        /\ DayState(fs, r.date_start) = "CachedEmpty"
        /\ r.downloaded = 0 /\ r.updated = 0

----------------------------------------------------------------------------
(* C12 *)

\* C12: when a day has neither raw file nor marker and the fetch, sent without a
\* fingerprint, returns data, the raw file of the day is created with exactly
\* the bytes the bucket holds, and only downloaded grows, by one.
C12_FoundOnAbsent ==
    [][LET r == run["p1"]
           q == run'["p1"]
           d == r.current_day
       IN  (DayStep /\ DayState(fs, d) = "Absent" /\ d \in q.requested /\ q.status = 200) =>
               /\ DayReconciled
               /\ q.local_etag = NoEtag
               /\ q.result.has_bytes /\ q.result.bytes = seen'[ObjectKey(r)].body
               /\ fs' = [fs EXCEPT ![RawPath(d)] = File(seen'[ObjectKey(r)].body)]
               /\ q.downloaded = r.downloaded + 1
               /\ q.updated = r.updated /\ q.skipped = r.skipped]_vars

\* The first day of a run had nothing cached and its two bytes were downloaded.
C12_Witness ==
    LET r == run["p1"]
    IN  /\ r.pc = "loop" /\ r.current_day = r.date_start + 1
        /\ r.status = 200 /\ r.downloaded = 1 /\ r.updated = 0
        /\ DayState(fs, r.date_start) = "Cached"
        /\ fs[RawPath(r.date_start)].bytes = <<1, 2>>

----------------------------------------------------------------------------
(* C13 *)

\* C13: when the reconciliation of a day ends without raising, the day has a raw
\* file or a marker.
C13_NeverNeither ==
    /\ [][DayReconciled => DayState(fs', run["p1"].current_day) # "Absent"]_vars
    /\ [](\A d \in DoneDays(run["p1"]) : DayState(fs, d) # "Absent")

\* Two days reconciled in one run, one left with a marker and one with a raw file.
C13_Witness ==
    LET r == run["p1"]
    IN  /\ r.pc = "done" /\ r.current_day = r.date_start + 2
        /\ DayState(fs, r.date_start) = "CachedEmpty"
        /\ DayState(fs, r.date_start + 1) = "Cached"

----------------------------------------------------------------------------
(* C14 *)

\* The files of day d in the cache f.
DayFiles(f, d) == <<f[RawPath(d)], f[MarkerPath(d)]>>

\* C14: the reconciliation of a day touches the files of that day only, and the
\* iteration whose fetch raises touches none; so when the fetch on day d ends the
\* run, the days before d are as their reconciliation left them, and d and the
\* days after it are as they were before the run: the run wrote for none of them.
C14_AbortPreservesProgress ==
    /\ [][DayStep => \A d \in Days : d # run["p1"].current_day =>
                         DayFiles(fs', d) = DayFiles(fs, d)]_vars
    /\ [][DayRaised => (fs' = fs /\ run'["p1"].current_day = run["p1"].current_day)]_vars
    /\ [][run["p1"].pc \in {"aborted", "done"} => fs' = fs]_vars
    /\ [](LET r == run["p1"]
          IN  r.pc # "idle" => (\A d \in r.written : r.date_start <= d /\ d < r.current_day))

\* A run wrote the file of its first day and was ended by the fetch of the second.
C14_Witness ==
    LET r == run["p1"]
    IN  /\ r.pc = "aborted" /\ r.current_day = r.date_start + 1
        /\ r.written = {r.date_start}
        /\ DayState(fs, r.date_start) = "Cached"
        /\ DayState(fs, r.current_day) = "Absent"

----------------------------------------------------------------------------
(* C17 *)

\* C17: when the key id or the secret is missing, the first fetch of a run
\* raises ValueError before any request is sent, in its first attempt and with no
\* retry, the run ends there, and the files are left as they were.
C17_MissingCredentialsFatal ==
    /\ [](LET r == run["p1"]
          IN  (~(env.key_id /\ env.secret) /\ r.pc # "idle") =>
                  /\ r.requested = {} /\ r.written = {} /\ r.status = 0
                  /\ r.current_day = r.date_start
                  /\ r.pc = "aborted" => (r.err = "ValueError" /\ r.attempt = 1 /\ r.transient = 0)
                  /\ r.pc = "done" => r.fetched = {})
    /\ [][(~(env.key_id /\ env.secret) /\ DayStep) =>
             (DayRaised /\ fs' = fs /\ run'["p1"].err = "ValueError")]_vars

\* With the secret missing, a run over two days or more has ended in ValueError
\* in the fetch of its first day.
C17_Witness ==
    LET r == run["p1"]
    IN  /\ env.key_id /\ ~env.secret
        /\ r.pc = "aborted" /\ r.err = "ValueError"
        /\ r.fetched = {r.date_start} /\ r.requested = {}
        /\ r.current_day + 1 < r.date_end

----------------------------------------------------------------------------
(* C16 *)

\* Content that is not parseable compressed data: the body of one byte stands
\* for it (too short for a gzip header).  No code of the run looks into the bytes.
Malformed(b) == b = <<1>>

\* The fetch of the day of this step got the response 200 with a malformed body.
MalformedAnswer ==
    /\ DayStep
    /\ run["p1"].current_day \in run'["p1"].requested
    /\ run'["p1"].status = 200
    /\ Malformed(seen'[ObjectKey(run["p1"])].body)

\* C16 (as amended): content that is not parseable compressed data is not looked
\* into: it is written to the raw file of the day like any other content and
\* counted as downloaded or updated, no exception is raised, and the run goes on
\* to the next day.
C16_MalformedPayloadSaved ==
    [][LET r == run["p1"]
           q == run'["p1"]
           d == r.current_day
       IN  MalformedAnswer =>
               /\ DayReconciled /\ q.err = "" /\ q.current_day = d + 1
               /\ fs' = [fs EXCEPT ![RawPath(d)] = File(seen'[ObjectKey(r)].body)]
               /\ IF HasRaw(fs, d)
                  THEN OnlyUpdated
                  ELSE /\ q.downloaded = r.downloaded + 1
                       /\ q.updated = r.updated /\ q.skipped = r.skipped]_vars

\* C16: when the remote returns content that is not parseable compressed data,
\* no cache write is made for the day, no exception is raised, and the run goes
\* on to the next day.
C16_MalformedPayloadDropped ==
    [][MalformedAnswer =>
          /\ DayReconciled /\ run'["p1"].current_day = run["p1"].current_day + 1
          /\ fs' = fs
          /\ run'["p1"].written = run["p1"].written]_vars

\* The malformed body was saved for the first day of a run, and the run has
\* gone on and reconciled the day after it.
C16_Witness ==
    LET r == run["p1"]
    IN  /\ r.pc = "loop" /\ r.current_day = r.date_start + 2
        /\ r.date_start \in r.written
        /\ DayState(fs, r.date_start) = "Cached"
        /\ Malformed(fs[RawPath(r.date_start)].bytes)
        /\ r.downloaded >= 1

----------------------------------------------------------------------------
(* C19 *)

\* C19: within one retried call, every delay slept between attempts lies in
\* [min_delay, max_delay], and the delays do not decrease from one attempt to
\* the next.
C19_BackoffBounds ==
    /\ \A i \in 1..Len(retry.delays) :
          retry.min_delay <= retry.delays[i] /\ retry.delays[i] <= retry.max_delay
    /\ \A i \in 1..Len(retry.delays), j \in 1..Len(retry.delays) :
          i <= j => retry.delays[i] <= retry.delays[j]
    /\ Len(retry.delays) < MAX_RETRIES

\* A call wrapped with a cap of two seconds has slept as often as it can: the
\* delays grew and the last is the cap.
C19_Witness ==
    /\ retry.pc = "raised" /\ retry.err = "RetryError"
    /\ retry.max_delay = 2
    /\ Len(retry.delays) = MAX_RETRIES - 1
    /\ retry.delays[1] < retry.delays[Len(retry.delays)]
    /\ retry.delays[Len(retry.delays)] = retry.max_delay

----------------------------------------------------------------------------
(* C15 *)

\* What the bucket holds for day d, as the fetches found it.
RemoteOf(d) == seen[s3_path(S3Prefix, d)]

\* C15: when the process is terminated, at whatever step, no raw file is left
\* on disk that does not hold the complete bytes of the remote object: every
\* day is as it was before its reconciliation or as it is after it.
C15_TerminationAtomic ==
    run["p1"].pc = "killed" =>
        \A d \in Days : HasRaw(fs, d) =>
            (RemoteOf(d).exists /\ fs[RawPath(d)].bytes = RemoteOf(d).body)

----------------------------------------------------------------------------
(* C18 *)

----------------------------------------------------------------------------
(* C20 *)

\* C20: create_empty_marker on a day that has its marker already leaves the
\* marker there, zero bytes long, and changes nothing else; marking twice gives
\* the files that marking once gives; and the marker is a zero-byte file beside
\* the raw file, its name the raw file's with ".empty" after it.
C20_MarkEmptyIdempotent ==
    /\ [][\A p \in Procs :
            (/\ run[p].pc = "write" /\ ~run[p].result.exists /\ run'[p].pc = "loop"
             /\ HasMarker(fs, run[p].current_day)) => fs' = fs]_vars
    /\ [](\A d \in Days :
            LET once == create_empty_marker(fs, RawPath(d))
            IN  /\ create_empty_marker(once, RawPath(d)) = once
                /\ once[MarkerPath(d)] = File(<<>>)
                /\ \A path \in Paths \ {MarkerPath(d)} : once[path] = fs[path]
                /\ HasMarker(fs, d) => (once = fs /\ fs[MarkerPath(d)] = File(<<>>))
                /\ MarkerPath(d)[1] = RawPath(d)[1] /\ MarkerPath(d)[2] = RawPath(d)[2]
                /\ MarkerPath(d)[3] = RawPath(d)[3] \o ".empty")

\* Each of two processes found a day without marker and called
\* create_empty_marker for it, the second on the marker of the first.
C20_Witness ==
    \E d \in Days :
        /\ d \in run["p1"].written /\ d \in run["p2"].written
        /\ run["p1"].current_day > d /\ run["p2"].current_day > d
        /\ DayState(fs, d) = "CachedEmpty"

----------------------------------------------------------------------------
(* C21 *)

\* The rule of the asset class: the ticker raw of a row belongs to the symbol S.
AssetClassRule(asset, raw, S) ==
    IF asset = "stocks" THEN raw = S
    ELSE IF asset = "crypto" THEN raw = <<"X", ":">> \o S
    ELSE IF asset = "forex" THEN raw = <<"C", ":">> \o S
    ELSE Len(raw) >= Len(S) + 2 /\ \A i \in 1..(Len(S) + 2) : raw[i] = (<<"O", ":">> \o S)[i]

\* A row of the raw table as the per-ticker table is to hold it.
Reduced(row) ==
    [timestamp |-> [ns |-> row.window_start, tz |-> "America/New_York"],
     ticker |-> row.ticker, open |-> row.open, close |-> row.close,
     low |-> row.low, high |-> row.high, volume |-> row.volume]

\* How often x is a row of table.
Count(table, x) == Cardinality({i \in DOMAIN table : table[i] = x})

\* The table handed to save_daily_prices for the path.
SavedAt(path) == (CHOOSE call \in norm.saved : call.path = path).table

----------------------------------------------------------------------------
(* C22 *)

\* C22: when the raw table of a day is empty, parse_and_save returns with a
\* marker file made for every requested ticker, beside the place of the
\* ticker's table of the day, and hands no table to save_daily_prices.
C22_EmptyDayMarked ==
    (norm.pc # "none" /\ norm.data = <<>>) =>
        /\ norm.pc = "saved"
        /\ norm.saved = {}
        /\ \A k \in DOMAIN norm.tickers :
              \E m \in norm.markers :
                  /\ m[1] = prices_dir(norm.asset_type) /\ m[2] = norm.tickers[k]
                  /\ m[3] = norm.date /\ m[4] = "parquet.empty"
        /\ Cardinality(norm.markers) = Cardinality({norm.tickers[k] : k \in DOMAIN norm.tickers})

\* The empty table of a day was given for two tickers, and two markers are there.
C22_Witness ==
    /\ norm.pc = "saved" /\ norm.data = <<>>
    /\ Len(norm.tickers) = 2
    /\ Cardinality(norm.markers) = 2
    /\ norm.saved = {}

----------------------------------------------------------------------------
(* C23 *)

\* C23: a run goes through the days one at a time in strictly increasing order,
\* each once; a run that completes has reconciled every day of
\* [effective start, end), each exactly once, and no run fetches or writes for
\* a day outside that interval, the end day included.
C23_DriverOrdering ==
    LET r == run["p1"]
    IN  r.pc # "idle" =>
            /\ \A i \in DOMAIN r.order : r.order[i] = r.date_start + i - 1
            /\ Len(r.order) = Cardinality(DoneDays(r))
            /\ \A d \in r.fetched \cup r.requested \cup r.written : d \in RangeDays(r)
            /\ r.pc = "done" =>
                   /\ Len(r.order) = Cardinality(RangeDays(r))
                   /\ \A d \in RangeDays(r) : Count(r.order, d) = 1
                   /\ \A i \in DOMAIN r.order : r.order[i] \in RangeDays(r)
                   /\ r.fetched = RangeDays(r)
            /\ r.pc \in {"loop", "aborted"} => r.current_day <= r.date_end
            /\ r.pc = "aborted" => r.current_day < r.date_end

\* A run over two days has completed: the first day, then the second.
C23_Witness ==
    LET r == run["p1"]
    IN  /\ r.pc = "done"
        /\ r.order = <<r.date_start, r.date_start + 1>>
        /\ r.date_end = r.date_start + 2

----------------------------------------------------------------------------
(* C24 *)

\* What the first attempt of the fetch of r's day gives when it is answered,
\* the bucket holding obj.
FirstAttempt(r, obj) ==
    AfterAttempt([r EXCEPT !.pc = "fetch", !.attempt = 0, !.transient = 0, !.result = NoResult],
                 get_file_from_s3(obj, r.key_id, r.secret, r.local_etag, ""))

\* C24: a fetch whose first k attempts raise transient errors, k < MAX_RETRIES,
\* and whose next attempt is answered is not given up before: the wrapper
\* returns after exactly k + 1 calls, the answered one being the last, and with
\* the result, the files and the counters that follow from it the day is
\* reconciled as it is when the first attempt is answered.
C24_RetryRecovery ==
    LET r == run["p1"]
        key == ObjectKey(r)
    IN  /\ r.pc = "fetch" => (r.attempt = r.transient /\ r.transient < MAX_RETRIES)
        /\ (r.pc = "aborted" /\ r.err = "RetryError") => r.transient = MAX_RETRIES
        /\ r.pc \in {"apply", "write", "opened"} =>
               /\ r.attempt = r.transient + 1
               /\ r.transient < MAX_RETRIES
               /\ r.current_day \in r.requested
               /\ r.result = FirstAttempt(r, seen[key]).result
        /\ r.pc = "apply" =>
               LET first == FirstAttempt(r, seen[key])
               IN  /\ first.pc = "apply" /\ first.attempt = 1
                   /\ ApplyFiles(fs, r) = ApplyFiles(fs, first)
                   /\ Writes(fs, r) = Writes(fs, first)
                   /\ ApplyCounters(r).downloaded = ApplyCounters(first).downloaded
                   /\ ApplyCounters(r).updated = ApplyCounters(first).updated
                   /\ ApplyCounters(r).skipped = ApplyCounters(first).skipped

\* The fetch of a day raised MAX_RETRIES - 1 transient errors and was then
\* answered with the bytes of the object.
C24_Witness ==
    LET r == run["p1"]
    IN  /\ r.pc = "apply"
        /\ r.transient = MAX_RETRIES - 1 /\ r.attempt = MAX_RETRIES
        /\ r.result.has_bytes /\ r.result.bytes = <<1, 2>>

----------------------------------------------------------------------------
(* C25 *)

\* The files of day d after a run over d that is not interrupted, the bucket
\* holding for d what the fetches found: the object's bytes in the raw file and
\* no marker, or the marker and no raw file.
Uninterrupted(d) ==
    IF RemoteOf(d).exists THEN <<File(RemoteOf(d).body), NoFile>> ELSE <<NoFile, File(<<>>)>>

\* C25: when a run is terminated, at whatever step and with whatever part of a
\* raw file written, and the same range is then run to completion with the
\* bucket unchanged, every day of the range has the raw file and the marker
\* that a run without the termination leaves.
C25_CrashConvergence ==
    LET r == run["p1"]
    IN  (r.pc = "done" /\ r.prev_outcome = "killed") =>
            \A d \in RangeDays(r) : DayFiles(fs, d) = Uninterrupted(d)

\* A run was terminated while it wrote the raw file of its first day; the run
\* after it over the same range found a file that was not the object's, wrote
\* it again, and completed.
C25_Witness ==
    LET r == run["p1"]
    IN  /\ r.pc = "done" /\ r.prev_outcome = "killed"
        /\ r.prev_day = r.date_start /\ r.date_start < r.date_end
        /\ r.updated >= 1
        /\ fs[RawPath(r.date_start)] = File(<<1, 2>>)

----------------------------------------------------------------------------
(* C26 *)

\* The days r has reconciled for which the bucket answered that there is no
\* object.
ReportedMissing(r) == {d \in DoneDays(r) : ~RemoteOf(d).exists}

\* Of the three counters, this step changes only downloaded, by one.
OnlyDownloaded ==
    /\ run'["p1"].downloaded = run["p1"].downloaded + 1
    /\ run'["p1"].updated = run["p1"].updated
    /\ run'["p1"].skipped = run["p1"].skipped

----------------------------------------------------------------------------
(* C27 *)

\* The raw path and the marker path of day d of an asset type.
RawPathOf(asset, d) == get_flat_file_path(files_dir(asset), d)
MarkerPathOf(asset, d) == empty_marker_path(RawPathOf(asset, d))

\* C27: every step of the reconciliation of day d of an asset type changes only
\* the raw file and the marker of that asset type and day; and distinct pairs of
\* asset type and day have distinct raw paths and distinct marker paths, no raw
\* path being a marker path, so that the entries of every other day and every
\* other asset type are left as they are.
C27_DayLocalEffects ==
    /\ [][\A path \in Paths :
             fs'[path] # fs[path] =>
                 /\ Running(run["p1"])
                 /\ path \in {RawPathOf(AssetType, run["p1"].current_day),
                              MarkerPathOf(AssetType, run["p1"].current_day)}]_vars
    /\ [](\A a \in AssetTypes, b \in AssetTypes, d \in Days, e \in Days :
             /\ RawPathOf(a, d) # MarkerPathOf(b, e)
             /\ <<a, d>> # <<b, e>> =>
                    /\ RawPathOf(a, d) # RawPathOf(b, e)
                    /\ MarkerPathOf(a, d) # MarkerPathOf(b, e))

\* The second day of a run has been reconciled, its raw file written over the
\* one a terminated run left, while the first day has its marker.
C27_Witness ==
    LET r == run["p1"]
    IN  /\ r.pc = "loop" /\ r.current_day = r.date_start + 2
        /\ r.written = {r.date_start + 1} /\ r.updated = 1
        /\ DayState(fs, r.date_start) = "CachedEmpty"
        /\ DayState(fs, r.date_start + 1) = "Cached"

----------------------------------------------------------------------------
(* C28 *)

\* C28: the fetch of a day carries a fingerprint exactly when the day has a raw
\* file, and the fingerprint is the MD5 of the bytes that file holds at the
\* time, whatever ETag an earlier download of the day came with; without a raw
\* file the request is unconditional, with a marker as without one, and it is
\* only a request with a fingerprint that is answered 304.
C28_FingerprintChoice ==
    LET r == run["p1"]
        d == r.current_day
    IN  /\ r.pc = "fetch" =>
               /\ r.file_exists_locally = HasRaw(fs, d)
               /\ (r.local_etag # NoEtag) = HasRaw(fs, d)
               /\ HasRaw(fs, d) => r.local_etag = Md5(fs[RawPath(d)].bytes)
               /\ DayState(fs, d) \in {"CachedEmpty", "Absent"} => r.local_etag = NoEtag
        /\ r.pc = "apply" =>
               /\ (r.local_etag # NoEtag) = HasRaw(fs, d)
               /\ r.result = Unchanged =>
                      (HasRaw(fs, d) /\ r.local_etag = RemoteETag(RemoteOf(d)))
               /\ r.local_etag = NoEtag => r.result # Unchanged

\* A terminated run left the first byte of the two of the object it had
\* downloaded; the fetch of the run after it is about to carry the MD5 of that
\* byte, which is not the object's ETag.
C28_Witness ==
    LET r == run["p1"]
        d == r.current_day
    IN  /\ r.pc = "fetch" /\ r.prev_outcome = "killed"
        /\ fs[RawPath(d)] = File(<<1>>)
        /\ RemoteOf(d) = Object(<<1, 2>>)
        /\ r.local_etag = Md5(<<1>>)
        /\ r.local_etag # RemoteETag(RemoteOf(d))

----------------------------------------------------------------------------
(* C29 *)

\* The run of p1 has returned or raised.
Ended == run["p1"].pc \in {"done", "aborted"}

\* C29: when every fetch attempt returns or raises, a run of retrieve_prices
\* that has started ends: it completes, every day of [effective start, end)
\* reconciled, or it is ended by an exception; and no day gets more than
\* MAX_RETRIES attempts.
C29_RunTerminates ==
    /\ (run["p1"].pc # "idle") ~> Ended
    /\ [](LET r == run["p1"]
          IN  /\ r.attempt <= MAX_RETRIES
              /\ r.pc = "done" => Len(r.order) = Cardinality(RangeDays(r))
              /\ r.pc = "aborted" => r.err \in {"RetryError", "RuntimeError", "ValueError"})

\* A run over two days has completed after MAX_RETRIES - 1 transient errors on
\* each of the days.
C29_Witness ==
    LET r == run["p1"]
    IN  /\ r.pc = "done" /\ Len(r.order) = 2
        /\ r.spent = 2 * (MAX_RETRIES - 1)

----------------------------------------------------------------------------
(* C30 *)

\* The transient errors of the run of r on the days before the one it is at.
SpentBefore(r) == r.spent - r.transient

\* C30: the attempts are counted for each fetch call by itself: whatever the
\* number of transient errors on the days before, the fetch of a day starts at
\* no attempts made, has an attempt left as long as fewer than MAX_RETRIES of its
\* own have failed, and gives up only when MAX_RETRIES of its own have failed.
C30_PerCallBudget ==
    LET r == run["p1"]
    IN  /\ SpentBefore(r) >= 0
        /\ r.pc = "fetch" =>
               /\ r.attempt = r.transient
               /\ MAX_RETRIES - r.attempt >= 1
        /\ (r.pc = "fetch" /\ r.current_day \notin r.fetched) => r.attempt = 0
        /\ (r.pc = "aborted" /\ r.err = "RetryError") =>
               (r.attempt = MAX_RETRIES /\ r.transient = MAX_RETRIES)
        /\ r.pc \in {"apply", "write", "opened"} => r.attempt <= MAX_RETRIES

\* The first day of a run was fetched at the last attempt allowed, and the
\* second day has been given up after MAX_RETRIES attempts of its own.
C30_Witness ==
    LET r == run["p1"]
    IN  /\ r.pc = "aborted" /\ r.err = "RetryError"
        /\ r.current_day = r.date_start + 1
        /\ SpentBefore(r) = MAX_RETRIES - 1
        /\ r.transient = MAX_RETRIES

====
